---------------------------- MODULE Spec2Model ----------------------------
(***************************************************************************)
(* Bank Transaction Analyzer (src/main.py): the extraction and             *)
(* categorization engine of BankEmailAnalyzer and the fetch loop of main.  *)
(*                                                                         *)
(* Text is modelled as TLA+ strings, read character by character with      *)
(* SubSeq/Len, so that lower(), strip(), the `in` substring test, the      *)
(* regular expressions of BANK_PATTERNS, float() and strptime() are        *)
(* computed the way the Python code computes them.                         *)
(*                                                                         *)
(* Time is the variable clock, read by datetime.now().  It advances by     *)
(* steps of its own (Tick); the seconds a call of                          *)
(* categorize_transaction_ai sleeps are counted in its frame (ai.sleeps).  *)
(***************************************************************************)
EXTENDS Integers, Sequences, FiniteSets, TLC

VARIABLES
    replicate_token,  \* self.replicate_token (main.py:97)
    clock,            \* seconds elapsed since the run began: datetime.now()
    date_range,       \* the sidebar's st.date_input value (main.py:442)
    emails,           \* gmail_auth.get_emails(...) (main.py:451)
    idx,              \* position of the for loop over emails (main.py:454)
    pc,               \* where the fetch handler (or the direct call) stands
    transaction,      \* the loop variable `transaction` (main.py:455)
    transactions,     \* the list `transactions` (main.py:453)
    ai,               \* the frame of the running categorize_transaction_ai call
    errors,           \* number of st.error reports made so far
    stored,           \* st.session_state.transactions (main.py:475)
    call,             \* a direct method call on the analyzer: [fn, args]
    ret               \* what that direct call returned

vars == <<replicate_token, clock, date_range, emails, idx, pc, transaction,
          transactions, ai, errors, stored, call, ret>>

-----------------------------------------------------------------------------
(* Python values that are not text or numbers *)

\* None, where the other values are records
None == [py |-> "None"]

\* None, where the other values are str
NoneStr == "<None>"

\* a raised exception, where the other values are records
ValueError == [raise |-> "ValueError"]

-----------------------------------------------------------------------------
(* str primitives *)

Char(s, i) == SubSeq(s, i, i)

AsciiUpper == "ABCDEFGHIJKLMNOPQRSTUVWXYZ"
AsciiLower == "abcdefghijklmnopqrstuvwxyz"
Digits == "0123456789"

\* the characters of a string, as a set
CharsOf(s) == {Char(s, i) : i \in 1..Len(s)}

\* the 1-based position of c in set (c is in set)
IndexIn(c, set) == CHOOSE i \in 1..Len(set) : Char(set, i) = c

ToLower == [c \in CharsOf(AsciiUpper) |-> Char(AsciiLower, IndexIn(c, AsciiUpper))]
ToUpper == [c \in CharsOf(AsciiLower) |-> Char(AsciiUpper, IndexIn(c, AsciiLower))]

LowerChar(c) == IF c \in DOMAIN ToLower THEN ToLower[c] ELSE c

UpperChar(c) == IF c \in DOMAIN ToUpper THEN ToUpper[c] ELSE c

RECURSIVE StrLower(_)
\* str.lower()
StrLower(s) == IF Len(s) <= 1 THEN LowerChar(s)
               ELSE StrLower(SubSeq(s, 1, Len(s) \div 2)) \o StrLower(SubSeq(s, Len(s) \div 2 + 1, Len(s)))

RECURSIVE StrUpper(_)
\* str.upper()
StrUpper(s) == IF Len(s) <= 1 THEN UpperChar(s)
               ELSE StrUpper(SubSeq(s, 1, Len(s) \div 2)) \o StrUpper(SubSeq(s, Len(s) \div 2 + 1, Len(s)))

\* what str.strip() removes and what \s matches
Whitespace == " \t\n\r\f"

WhitespaceChars == CharsOf(Whitespace)
DigitChars == CharsOf(Digits)

IsSpace(c) == c \in WhitespaceChars

IsDigit(c) == c \in DigitChars

RECURSIVE LStrip(_)
LStrip(s) == IF s # "" /\ IsSpace(Head(s)) THEN LStrip(Tail(s)) ELSE s

RECURSIVE RStrip(_)
RStrip(s) == IF s # "" /\ IsSpace(Char(s, Len(s))) THEN RStrip(SubSeq(s, 1, Len(s) - 1)) ELSE s

\* str.strip()
StrStrip(s) == RStrip(LStrip(s))

\* `word in s` for two strings
StrContains(s, word) == \E i \in 1..(Len(s) - Len(word) + 1) : SubSeq(s, i, i + Len(word) - 1) = word

\* any(word in s for word in words)
AnyIn(words, s) == \E w \in words : StrContains(s, w)

\* position of the first occurrence of word in s (word is in s)
StrFind(s, word) == CHOOSE i \in 1..(Len(s) - Len(word) + 1) :
                        /\ SubSeq(s, i, i + Len(word) - 1) = word
                        /\ \A j \in 1..(i - 1) : SubSeq(s, j, j + Len(word) - 1) # word

RECURSIVE StrRemove(_, _)
\* s.replace(c, '') for a single character c
StrRemove(s, c) == IF s = "" THEN ""
                   ELSE (IF Head(s) = c THEN "" ELSE Head(s)) \o StrRemove(Tail(s), c)

RECURSIVE StrJoin(_)
\* "".join(parts)
StrJoin(parts) == IF parts = <<>> THEN "" ELSE Head(parts) \o StrJoin(Tail(parts))

-----------------------------------------------------------------------------
(* CATEGORIES (main.py:27-68): category -> set of subcategories *)

CATEGORIES ==
    [c \in {"Food & Dining", "Entertainment", "Shopping", "Transportation", "Bills & Utilities"} |->
        CASE c = "Food & Dining"     -> {"Restaurants", "Fast Food", "Groceries"}
          [] c = "Entertainment"     -> {"Netflix", "Amazon Prime", "Movies"}
          [] c = "Shopping"          -> {"Clothing", "Electronics", "General"}
          [] c = "Transportation"    -> {"Fuel", "Public Transport", "Taxi/Ride Share"}
          [] c = "Bills & Utilities" -> {"Electricity", "Internet", "Phone"}]

\* a (category, subcategory) pair of the taxonomy
ValidPair(p) == /\ p[1] \in DOMAIN CATEGORIES
                /\ p[2] \in CATEGORIES[p[1]]

-----------------------------------------------------------------------------
(* fallback_categorization (main.py:246-275) *)

FoodWords == {"restaurant", "food", "cafe", "pizza", "burger", "swiggy", "zomato", "dominos", "mcd", "kfc"}
DeliveryWords == {"swiggy", "zomato", "delivery"}
ShoppingWords == {"amazon", "flipkart", "myntra", "reliance", "retail", "store", "mall"}
EntertainmentWords == {"netflix", "prime", "hotstar", "cinema", "movie", "theatre"}
TransportWords == {"petrol", "fuel", "gas", "uber", "ola", "metro", "bus"}
FuelWords == {"petrol", "fuel", "gas"}

\* a plausible slip: the Shopping test moved in front of the Food & Dining test
fallback_categorization_shopping_first(merchant) ==
    LET merchant_lower == StrLower(merchant) IN
    IF AnyIn(ShoppingWords, merchant_lower) THEN <<"Shopping", "General">>
    ELSE IF AnyIn(FoodWords, merchant_lower) THEN
        IF AnyIn(DeliveryWords, merchant_lower) THEN <<"Food & Dining", "Fast Food">>
        ELSE <<"Food & Dining", "Restaurants">>
    ELSE IF AnyIn(EntertainmentWords, merchant_lower) THEN
        IF StrContains(merchant_lower, "netflix") THEN <<"Entertainment", "Netflix">>
        ELSE IF StrContains(merchant_lower, "prime") THEN <<"Entertainment", "Amazon Prime">>
        ELSE <<"Entertainment", "Movies">>
    ELSE IF AnyIn(TransportWords, merchant_lower) THEN
        IF AnyIn(FuelWords, merchant_lower) THEN <<"Transportation", "Fuel">>
        ELSE <<"Transportation", "Taxi/Ride Share">>
    ELSE <<"Shopping", "General">>

\* a plausible slip: the delivery test made on the Food & Dining words only
fallback_categorization_no_delivery(merchant) ==
    LET merchant_lower == StrLower(merchant) IN
    IF AnyIn(FoodWords, merchant_lower) THEN
        IF AnyIn(DeliveryWords \cap FoodWords, merchant_lower) THEN <<"Food & Dining", "Fast Food">>
        ELSE <<"Food & Dining", "Restaurants">>
    ELSE IF AnyIn(ShoppingWords, merchant_lower) THEN <<"Shopping", "General">>
    ELSE IF AnyIn(EntertainmentWords, merchant_lower) THEN
        IF StrContains(merchant_lower, "netflix") THEN <<"Entertainment", "Netflix">>
        ELSE IF StrContains(merchant_lower, "prime") THEN <<"Entertainment", "Amazon Prime">>
        ELSE <<"Entertainment", "Movies">>
    ELSE IF AnyIn(TransportWords, merchant_lower) THEN
        IF AnyIn(FuelWords, merchant_lower) THEN <<"Transportation", "Fuel">>
        ELSE <<"Transportation", "Taxi/Ride Share">>
    ELSE <<"Shopping", "General">>

fallback_categorization(merchant) ==
    LET merchant_lower == StrLower(merchant) IN
    IF AnyIn(FoodWords, merchant_lower) THEN
        IF AnyIn(DeliveryWords, merchant_lower) THEN <<"Food & Dining", "Fast Food">>
        ELSE <<"Food & Dining", "Restaurants">>
    ELSE IF AnyIn(ShoppingWords, merchant_lower) THEN <<"Shopping", "General">>
    ELSE IF AnyIn(EntertainmentWords, merchant_lower) THEN
        IF StrContains(merchant_lower, "netflix") THEN <<"Entertainment", "Netflix">>
        ELSE IF StrContains(merchant_lower, "prime") THEN <<"Entertainment", "Amazon Prime">>
        ELSE <<"Entertainment", "Movies">>
    ELSE IF AnyIn(TransportWords, merchant_lower) THEN
        IF AnyIn(FuelWords, merchant_lower) THEN <<"Transportation", "Fuel">>
        ELSE <<"Transportation", "Taxi/Ride Share">>
    ELSE <<"Shopping", "General">>

-----------------------------------------------------------------------------
(* Regular expressions, as far as BANK_PATTERNS uses them.  A pattern is a  *)
(* sequence of elements: literal text, a greedy repetition of a character   *)
(* class, and the two parentheses of group 1.  All searches are made with   *)
(* re.IGNORECASE (main.py:110-122): literal text is compared lower-cased.   *)

Lit(text) == [t |-> "lit", s |-> StrLower(text), cls |-> "", min |-> 0, max |-> 0]
Rep(cls, min, max) == [t |-> "rep", s |-> "", cls |-> cls, min |-> min, max |-> max]
Star(cls) == Rep(cls, 0, -1)
Plus(cls) == Rep(cls, 1, -1)
Opt(cls) == Rep(cls, 0, 1)
Times(cls, n) == Rep(cls, n, n)
GroupOpen == [t |-> "open", s |-> "", cls |-> "", min |-> 0, max |-> 0]
GroupClose == [t |-> "close", s |-> "", cls |-> "", min |-> 0, max |-> 0]

\* the character classes, named by their regular-expression text
InClass(c, cls) ==
    CASE cls = "\\s"       -> IsSpace(c)
      [] cls = "[^\\s]"    -> ~IsSpace(c)
      [] cls = "[0-9]"     -> IsDigit(c)
      [] cls = "[0-9,]"    -> IsDigit(c) \/ c = ","
      [] cls = "[^\\n\\r]" -> c \notin {"\n", "\r"}
      [] cls = "\\."       -> c = "."

RECURSIVE RunLen(_, _, _, _)
\* how many characters of s from pos on are in cls, at most max of them (max < 0: no limit)
RunLen(s, pos, cls, max) ==
    IF max = 0 \/ pos > Len(s) \/ ~InClass(Char(s, pos), cls) THEN 0
    ELSE 1 + RunLen(s, pos + 1, cls, max - 1)

\* the function f on 1..n as the tuple of its values, each computed once
Tuple(f) == f \o <<>>

SetMax(S) == CHOOSE x \in S : \A y \in S : y <= x
SetMin(S) == CHOOSE x \in S : \A y \in S : x <= y

NoMatch == [ok |-> FALSE, end |-> 0, g |-> <<0, 0>>]

RECURSIVE ReMatch(_, _, _, _, _)
\* the match of pat[k..] at position pos of s that a backtracking matcher finds
\* first (a greedy repetition gives back one character at a time); g holds the
\* bounds of group 1 so far
ReMatch(pat, k, s, pos, g) ==
    IF k > Len(pat) THEN [ok |-> TRUE, end |-> pos, g |-> g]
    ELSE LET e == pat[k] IN
         CASE e.t = "lit" ->
                IF /\ pos + Len(e.s) - 1 <= Len(s)
                   /\ LowerChar(Char(s, pos)) = Char(e.s, 1)
                   /\ StrLower(SubSeq(s, pos, pos + Len(e.s) - 1)) = e.s
                THEN ReMatch(pat, k + 1, s, pos + Len(e.s), g)
                ELSE NoMatch
           [] e.t = "open" -> ReMatch(pat, k + 1, s, pos, <<pos, g[2]>>)
           [] e.t = "close" -> ReMatch(pat, k + 1, s, pos, <<g[1], pos>>)
           [] e.t = "rep" ->
                LET run == RunLen(s, pos, e.cls, e.max)
                    tries == Tuple([i \in 1..(run - e.min + 1) |->
                                       ReMatch(pat, k + 1, s, pos + e.min + i - 1, g)])
                    good == {i \in DOMAIN tries : tries[i].ok}
                IN IF run < e.min \/ good = {} THEN NoMatch ELSE tries[SetMax(good)]

\* re.search(pattern, s, re.IGNORECASE): None, or the match object of the
\* leftmost match, as the tuple of its groups
ReSearch(pat, s) ==
    LET tries == Tuple([p \in 1..(Len(s) + 1) |-> ReMatch(pat, 1, s, p, <<0, 0>>)])
        starts == {p \in 1..(Len(s) + 1) : tries[p].ok}
    IN
    IF starts = {} THEN None
    ELSE LET m == tries[SetMin(starts)] IN
         [groups |-> IF \E k \in DOMAIN pat : pat[k].t = "open"
                     THEN <<SubSeq(s, m.g[1], m.g[2] - 1)>>
                     ELSE <<>>]

-----------------------------------------------------------------------------
(* BANK_PATTERNS (main.py:71-93) *)

AmountDigits == <<GroupOpen, Plus("[0-9,]"), Opt("\\."), Star("[0-9]"), GroupClose>>
DashedDate == <<GroupOpen, Times("[0-9]", 2), Lit("-"), Times("[0-9]", 2), Lit("-"),
                Times("[0-9]", 4), GroupClose>>
RestOfLine == <<GroupOpen, Plus("[^\\n\\r]"), GroupClose>>

BANK_PATTERNS ==
    [b \in {"sbi", "hdfc", "icici"} |->
        CASE b = "sbi" ->
               [sender          |-> {"donotreply.sbiatm@alerts.sbi.co.in"},
                amount_pattern   |-> <<Lit("Amount (INR)"), Star("\\s")>> \o AmountDigits,
                merchant_pattern |-> <<Lit("Terminal Owner Name"), Star("\\s")>> \o RestOfLine,
                date_pattern     |-> <<Lit("Date & Time"), Star("\\s")>> \o RestOfLine,
                card_pattern     |-> <<Lit("Last 4 Digit of Card"), Star("\\s")>> \o RestOfLine]
          [] b = "hdfc" ->
               [sender          |-> {"alerts@hdfcbank.net"},
                amount_pattern   |-> <<Lit("Rs"), Opt("\\."), Star("\\s")>> \o AmountDigits,
                merchant_pattern |-> <<Lit("at"), Plus("\\s"), GroupOpen, Plus("[^\\s]"), GroupClose>>,
                date_pattern     |-> <<Lit("on"), Plus("\\s")>> \o DashedDate,
                card_pattern     |-> <<Lit("card"), Plus("\\s"), Lit("ending"), Plus("\\s"),
                                       GroupOpen, Times("[0-9]", 4), GroupClose>>]
          [] b = "icici" ->
               [sender          |-> {"alert@icicibank.com", "credit_cards@icicibank.com"},
                amount_pattern   |-> <<Lit("INR"), Star("\\s")>> \o AmountDigits,
                merchant_pattern |-> <<Lit("at"), Plus("\\s")>> \o RestOfLine,
                date_pattern     |-> <<Lit("on"), Plus("\\s")>> \o DashedDate,
                card_pattern     |-> <<Lit("Card"), Plus("\\s"), Lit("ending"), Plus("\\s"),
                                       GroupOpen, Times("[0-9]", 4), GroupClose>>]]

\* BANK_PATTERNS.get(bank, {}).get(field, ''): the empty pattern when the bank has no entry
PatternOf(bank, field) == IF bank \in DOMAIN BANK_PATTERNS THEN BANK_PATTERNS[bank][field] ELSE <<>>

-----------------------------------------------------------------------------
(* identify_bank (main.py:137-156) *)

\* the substrings tested, in the order of the if/elif chain
BankKeywords == <<"sbi", "hdfc", "icici", "axis", "kotak", "idfc", "yes", "indus">>

\* a plausible slip: the sender compared without lower-casing it
identify_bank_case_sensitive(sender) ==
    LET hits == {i \in DOMAIN BankKeywords : StrContains(sender, BankKeywords[i])} IN
    IF hits = {} THEN NoneStr ELSE BankKeywords[SetMin(hits)]

identify_bank(sender) ==
    LET sender_lower == StrLower(sender)
        hits == {i \in DOMAIN BankKeywords : StrContains(sender_lower, BankKeywords[i])}
    IN IF hits = {} THEN NoneStr ELSE BankKeywords[SetMin(hits)]

-----------------------------------------------------------------------------
(* float(): a number is [num, exp], the value num / 10^exp with no trailing *)
(* zero in the fraction.  The texts converted are captures of               *)
(* [0-9,]+\.?[0-9]* with the commas removed: digits and at most one point.  *)

DigitValue == [c \in DigitChars |-> IndexIn(c, Digits) - 1]

DigitVal(c) == DigitValue[c]

RECURSIVE StrToNat(_)
\* int() of a string of digits ("" gives 0)
StrToNat(s) == IF s = "" THEN 0
               ELSE StrToNat(SubSeq(s, 1, Len(s) - 1)) * 10 + DigitVal(Char(s, Len(s)))

RECURSIVE RStripZeros(_)
RStripZeros(s) == IF s # "" /\ Char(s, Len(s)) = "0" THEN RStripZeros(SubSeq(s, 1, Len(s) - 1)) ELSE s

Zero == [num |-> 0, exp |-> 0]

\* amount > 0
Positive(x) == x.num > 0

\* float(s): ValueError unless s is digits with at most one point and at least one digit
Float(s) ==
    LET t == StrStrip(s)
        points == {i \in 1..Len(t) : Char(t, i) = "."}
        digits == {i \in 1..Len(t) : IsDigit(Char(t, i))}
    IN IF digits = {} \/ Cardinality(points) > 1 \/ digits \cup points # 1..Len(t)
       THEN ValueError
       ELSE LET p == IF points = {} THEN Len(t) + 1 ELSE SetMin(points)
                frac == RStripZeros(SubSeq(t, p + 1, Len(t)))
            IN [num |-> StrToNat(SubSeq(t, 1, p - 1) \o frac), exp |-> Len(frac)]

-----------------------------------------------------------------------------
(* datetime.strptime and parse_date (main.py:158-178).  A format is the     *)
(* sequence of its directives and literal characters; a datetime is a       *)
(* record [year, month, day, hour, minute, second].                         *)

MonthAbbr == <<"jan", "feb", "mar", "apr", "may", "jun", "jul", "aug", "sep", "oct", "nov", "dec">>

AllDigits(s) == \A i \in 1..Len(s) : IsDigit(Char(s, i))

\* the lengths a directive (or a literal character) of a format can take at
\* position pos of s, in the order the alternatives of its regular
\* expression are tried by _strptime
Alts(d, s, pos) ==
    LET one == SubSeq(s, pos, pos)
        two == SubSeq(s, pos, pos + 1)
        is1 == pos <= Len(s)
        is2 == pos + 1 <= Len(s)
        n2 == StrToNat(two)
        If(b, n) == IF b THEN <<n>> ELSE <<>>
    IN CASE d = "%d" ->    \* 3[0-1]|[1-2]\d|0[1-9]|[1-9]| [1-9]
              If(is2 /\ AllDigits(two) /\ n2 >= 1 /\ n2 <= 31, 2)
              \o If(is1 /\ IsDigit(one) /\ one # "0", 1)
              \o If(is2 /\ Char(two, 1) = " " /\ IsDigit(Char(two, 2)) /\ Char(two, 2) # "0", 2)
         [] d = "%m" ->    \* 1[0-2]|0[1-9]|[1-9]
              If(is2 /\ AllDigits(two) /\ n2 >= 1 /\ n2 <= 12, 2)
              \o If(is1 /\ IsDigit(one) /\ one # "0", 1)
         [] d = "%Y" ->    \* \d\d\d\d
              If(pos + 3 <= Len(s) /\ AllDigits(SubSeq(s, pos, pos + 3)), 4)
         [] d = "%H" ->    \* 2[0-3]|[0-1]\d|\d
              If(is2 /\ AllDigits(two) /\ n2 <= 23, 2) \o If(is1 /\ IsDigit(one), 1)
         [] d = "%M" ->    \* [0-5]\d|\d
              If(is2 /\ AllDigits(two) /\ n2 <= 59, 2) \o If(is1 /\ IsDigit(one), 1)
         [] d = "%b" ->    \* the abbreviated month names, any case
              If(pos + 2 <= Len(s)
                 /\ \E i \in DOMAIN MonthAbbr : StrLower(SubSeq(s, pos, pos + 2)) = MonthAbbr[i], 3)
         [] d = " " ->     \* \s+, greedy
              LET run == RunLen(s, pos, "\\s", -1) IN [i \in 1..run |-> run + 1 - i]
         [] OTHER ->       \* a literal character
              If(is1 /\ LowerChar(one) = LowerChar(d), 1)

StrpNoMatch == [ok |-> FALSE, end |-> 0, parts |-> <<>>]

RECURSIVE StrpMatch(_, _, _, _)
\* format_regex.match(data_string): the first match a backtracking matcher
\* finds of fmt[k..] at pos, with the text each element of fmt matched
StrpMatch(fmt, k, s, pos) ==
    IF k > Len(fmt) THEN [ok |-> TRUE, end |-> pos, parts |-> <<>>]
    ELSE LET cands == Alts(fmt[k], s, pos)
             tries == Tuple([i \in DOMAIN cands |-> StrpMatch(fmt, k + 1, s, pos + cands[i])])
             oks == {i \in DOMAIN cands : tries[i].ok}
         IN IF oks = {} THEN StrpNoMatch
            ELSE LET i == SetMin(oks)
                 IN [ok |-> TRUE, end |-> tries[i].end,
                     parts |-> <<SubSeq(s, pos, pos + cands[i] - 1)>> \o tries[i].parts]

IsLeap(year) == year % 4 = 0 /\ (year % 100 # 0 \/ year % 400 = 0)

DaysInMonth(year, month) ==
    IF month = 2 THEN (IF IsLeap(year) THEN 29 ELSE 28)
    ELSE IF month \in {4, 6, 9, 11} THEN 30 ELSE 31

\* the text the directive d of fmt matched, as a number (default: fmt has no d)
Field(fmt, parts, d, default) ==
    IF \E k \in DOMAIN fmt : fmt[k] = d
    THEN StrToNat(StrStrip(parts[CHOOSE k \in DOMAIN fmt : fmt[k] = d]))
    ELSE default

\* the month: the number of the name %b matched, or the number %m matched
MonthField(fmt, parts) ==
    IF \E k \in DOMAIN fmt : fmt[k] = "%b"
    THEN CHOOSE i \in DOMAIN MonthAbbr :
             MonthAbbr[i] = StrLower(parts[CHOOSE k \in DOMAIN fmt : fmt[k] = "%b"])
    ELSE Field(fmt, parts, "%m", 1)

\* datetime(year, month, day, hour, minute): ValueError when there is no such day
CheckedDate(year, month, day, hour, minute) ==
    IF year < 1 \/ day > DaysInMonth(year, month) THEN ValueError
    ELSE [year |-> year, month |-> month, day |-> day, hour |-> hour, minute |-> minute, second |-> 0]

\* what strptime makes of the match m: ValueError when the format did not
\* match or when text remains after the match
DateFromMatch(date_str, fmt, m) ==
    IF ~m.ok \/ m.end # Len(date_str) + 1 THEN ValueError
    ELSE CheckedDate(Field(fmt, m.parts, "%Y", 1900), MonthField(fmt, m.parts),
                     Field(fmt, m.parts, "%d", 1), Field(fmt, m.parts, "%H", 0),
                     Field(fmt, m.parts, "%M", 0))

\* datetime.strptime(date_str, fmt)
strptime(date_str, fmt) == DateFromMatch(date_str, fmt, StrpMatch(fmt, 1, date_str, 1))

\* the list `formats` of parse_date (main.py:162-168)
formats == << <<"%b", " ", "%d", ",", " ", "%Y", ",", " ", "%H", ":", "%M">>,
              <<"%d", "-", "%m", "-", "%Y">>,
              <<"%Y", "-", "%m", "-", "%d">>,
              <<"%d", "/", "%m", "/", "%Y">>,
              <<"%m", "/", "%d", "/", "%Y">> >>

\* a plausible slip: the month-first format listed before the day-first one
formats_month_first == << formats[1], formats[2], formats[3], formats[5], formats[4] >>

\* the moment the run began, and datetime.now() when the clock shows t seconds
RunStart == [year |-> 2025, month |-> 6, day |-> 30, hour |-> 9, minute |-> 0, second |-> 0]

Now(t) == [RunStart EXCEPT !.second = t % 60, !.minute = (t \div 60) % 60]

\* the first of two results that is not a ValueError
OrElse(first, second) == IF first # ValueError THEN first ELSE second

RECURSIVE TryFormats(_, _, _)
\* the for loop of parse_date over fmts, then datetime.now()
TryFormats(date_str, fmts, t) ==
    IF fmts = <<>> THEN Now(t)
    ELSE OrElse(strptime(date_str, Head(fmts)), TryFormats(date_str, Tail(fmts), t))

\* a plausible slip: see formats_month_first
parse_date_month_first(date_str, t) == TryFormats(date_str, formats_month_first, t)

parse_date(date_str, t) == TryFormats(date_str, formats, t)

-----------------------------------------------------------------------------
(* parse_transaction_email (main.py:99-135).  The result is [value, error]: *)
(* the value returned (a transaction record or None) and whether st.error   *)
(* was called, which is the case when the except clause was taken.          *)

\* match.group(1) raises IndexError when the pattern has no group
GroupRaises(match) == match # None /\ match.groups = <<>>

\* float(amount_match.group(1).replace(',', '')) if amount_match else 0.0
ExtractAmount(match) == IF match = None THEN Zero ELSE Float(StrRemove(match.groups[1], ","))

\* match.group(1).strip() if match else default
ExtractText(match, default) == IF match = None THEN default ELSE StrStrip(match.groups[1])

\* the body of the try block once the four searches are made: the except
\* clause when a group is missing or float() raises, else the record
BuildTransaction(bank, email_content, amount_match, merchant_match, date_match, card_match, t) ==
    IF \/ GroupRaises(amount_match)
       \/ ExtractAmount(amount_match) = ValueError
       \/ GroupRaises(merchant_match)
       \/ GroupRaises(date_match)
       \/ GroupRaises(card_match)
    THEN [value |-> None, error |-> TRUE]
    ELSE [value |-> [amount     |-> ExtractAmount(amount_match),
                     merchant   |-> ExtractText(merchant_match, "Unknown"),
                     date       |-> parse_date(ExtractText(date_match, ""), t),
                     card_last4 |-> ExtractText(card_match, ""),
                     bank       |-> StrUpper(bank),
                     raw_email  |-> email_content],
          error |-> FALSE]

\* a plausible slip: a bank without a profile taken for an unknown bank
ParseForBank_unprofiled_unknown(bank, email_content, t) ==
    IF bank = NoneStr \/ bank \notin DOMAIN BANK_PATTERNS THEN [value |-> None, error |-> FALSE]
    ELSE BuildTransaction(bank, email_content,
                          ReSearch(PatternOf(bank, "amount_pattern"), email_content),
                          ReSearch(PatternOf(bank, "merchant_pattern"), email_content),
                          ReSearch(PatternOf(bank, "date_pattern"), email_content),
                          ReSearch(PatternOf(bank, "card_pattern"), email_content), t)

\* parse_transaction_email once the bank is identified
ParseForBank(bank, email_content, t) ==
    IF bank = NoneStr THEN [value |-> None, error |-> FALSE]
    ELSE BuildTransaction(bank, email_content,
                          ReSearch(PatternOf(bank, "amount_pattern"), email_content),
                          ReSearch(PatternOf(bank, "merchant_pattern"), email_content),
                          ReSearch(PatternOf(bank, "date_pattern"), email_content),
                          ReSearch(PatternOf(bank, "card_pattern"), email_content), t)

parse_transaction_email(email_content, sender, t) == ParseForBank(identify_bank(sender), email_content, t)

-----------------------------------------------------------------------------
(* categorize_transaction_ai (main.py:180-244).  A response of the remote   *)
(* classifier is [raises, status_code, json]: whether the request raised,   *)
(* the HTTP status, and the decoded body.  The body of a submission is      *)
(* [get]: the URL under ["urls"]["get"]; the body of a poll is [status,     *)
(* output].  A key the body lacks is NoneStr: reading it raises KeyError.   *)
(* An output is [type, v]: a str, a list of str, or None.                   *)

\* range(10) of the polling loop (main.py:220)
PollCeiling == 10

PyStr(v) == [type |-> "str", v |-> v, items |-> <<>>]
PyList(items) == [type |-> "list", v |-> "", items |-> items]
PyNone == [type |-> "NoneType", v |-> "", items |-> <<>>]

NoJson == [get |-> NoneStr, status |-> NoneStr, output |-> PyNone]
Raised == [raises |-> TRUE, status_code |-> 0, json |-> NoJson]
Http(code, json) == [raises |-> FALSE, status_code |-> code, json |-> json]
Accepted(url) == [get |-> url, status |-> "starting", output |-> PyNone]
Polled(status, output) == [get |-> "", status |-> status, output |-> output]

NoPair == <<"", "">>

\* what the code does with the answer to requests.post (main.py:202-217):
\* "raise" (into the except clause), "poll" (enter the loop) or "skip"
\* (the if is not taken)
submit_outcome(resp) ==
    IF resp.raises THEN "raise"
    ELSE IF resp.status_code = 201
         THEN (IF resp.json.get = NoneStr THEN "raise" ELSE "poll")
         ELSE "skip"

\* "".join(output) if it is a list (main.py:230-231)
JoinedOutput(output) == IF output.type = "list" THEN StrJoin(output.items) ELSE output.v

\* output.strip().split("|", 1), each half stripped (main.py:234-235)
SplitPair(text) ==
    LET stripped == StrStrip(text)
        bar == StrFind(stripped, "|")
    IN <<StrStrip(SubSeq(stripped, 1, bar - 1)), StrStrip(SubSeq(stripped, bar + 1, Len(stripped)))>>

\* a plausible slip: a succeeded output without the delimiter returned as
\* the category instead of leaving the loop
poll_outcome_undelimited(resp) ==
    IF resp.raises THEN [act |-> "raise", value |-> NoPair]
    ELSE IF resp.status_code # 200 THEN [act |-> "sleep", value |-> NoPair]
    ELSE IF resp.json.status = NoneStr THEN [act |-> "raise", value |-> NoPair]
    ELSE IF resp.json.status # "succeeded" THEN [act |-> "sleep", value |-> NoPair]
    ELSE IF resp.json.output.type = "NoneType" THEN [act |-> "raise", value |-> NoPair]
    ELSE IF StrContains(JoinedOutput(resp.json.output), "|")
         THEN [act |-> "return", value |-> SplitPair(JoinedOutput(resp.json.output))]
    ELSE [act |-> "return", value |-> <<StrStrip(JoinedOutput(resp.json.output)), "">>]

\* a plausible slip: a prediction reported as failed leaves the loop
poll_outcome_failed_breaks(resp) ==
    IF resp.raises THEN [act |-> "raise", value |-> NoPair]
    ELSE IF resp.status_code # 200 THEN [act |-> "sleep", value |-> NoPair]
    ELSE IF resp.json.status = NoneStr THEN [act |-> "raise", value |-> NoPair]
    ELSE IF resp.json.status = "failed" THEN [act |-> "break", value |-> NoPair]
    ELSE IF resp.json.status # "succeeded" THEN [act |-> "sleep", value |-> NoPair]
    ELSE IF resp.json.output.type = "NoneType" THEN [act |-> "raise", value |-> NoPair]
    ELSE IF StrContains(JoinedOutput(resp.json.output), "|")
         THEN [act |-> "return", value |-> SplitPair(JoinedOutput(resp.json.output))]
    ELSE [act |-> "break", value |-> NoPair]

\* what one turn of the polling loop does with the answer to requests.get
\* (main.py:221-239): "raise", "return" a pair, "break", or "sleep" and go on
poll_outcome(resp) ==
    IF resp.raises THEN [act |-> "raise", value |-> NoPair]
    ELSE IF resp.status_code # 200 THEN [act |-> "sleep", value |-> NoPair]
    ELSE IF resp.json.status = NoneStr THEN [act |-> "raise", value |-> NoPair]
    ELSE IF resp.json.status # "succeeded" THEN [act |-> "sleep", value |-> NoPair]
    ELSE IF resp.json.output.type = "NoneType" THEN [act |-> "raise", value |-> NoPair]
    ELSE IF StrContains(JoinedOutput(resp.json.output), "|")
         THEN [act |-> "return", value |-> SplitPair(JoinedOutput(resp.json.output))]
    ELSE [act |-> "break", value |-> NoPair]

\* a plausible slip: the loop bound tested one turn late
LoopExhausted_late(polls) == polls > PollCeiling

\* the for loop over range(10) has no turn left
LoopExhausted(polls) == polls >= PollCeiling

\* the frame of a call: its arguments, the requests made so far, the last
\* response received, and the pair returned once it has returned
NoFrame == [merchant |-> "", amount |-> Zero, submits |-> 0, polls |-> 0, sleeps |-> 0,
            resp |-> Raised, ret |-> NoPair]

NewFrame(merchant, amount) == [NoFrame EXCEPT !.merchant = merchant, !.amount = amount]

-----------------------------------------------------------------------------
(* Bounds and the inputs drawn within them *)

\* emails in one fetched batch
MaxEmails == 2

\* words in a merchant name given to fallback_categorization directly
MaxWords == 3

\* seconds that may pass during a run
MaxClock == 1

\* bank_senders of get_emails (main.py:313-323)
bank_senders == {"donotreply.sbiatm@alerts.sbi.co.in", "alerts@hdfcbank.net", "alert@icicibank.com",
                 "credit_cards@icicibank.com", "alerts@axisbank.com", "creditcardalerts@kotak.com",
                 "noreply@idfcfirstbank.com", "alerts@yesbank.in", "transactionalert@indusind.com"}

\* senders with no bank in them, and two that hold a bank keyword by accident
OtherSenders == {"", "noreply@example.com", "billing@paytm.com", "Offers@Flipkart.COM",
                 "newsbites@mail.com", "eyes@example.org"}

Senders == bank_senders \cup {StrUpper(x) : x \in bank_senders} \cup OtherSenders

MerchantWords == {"SWIGGY", "TAJ", "RESTAURANT", "AMAZON", "FRESH", "Prime", "Cinema",
                  "Uber", "Petrol", "DELIVERY", "Cola"}

RECURSIVE Phrases(_)
\* the merchant names of at most n words
Phrases(n) == IF n = 0 THEN {""}
              ELSE LET shorter == Phrases(n - 1)
                   IN shorter \cup {IF p = "" THEN w ELSE p \o " " \o w : p \in shorter, w \in MerchantWords}

Merchants == Phrases(MaxWords) \cup {"RELIANCE RETAIL LTD", "| RELIANCE RETAIL LTD"}

DateParts == {"01", "02", "13", "29", "31", "7"}
DateYears == {"2025", "2024", "25"}

DateTexts ==
    {a \o sep \o b \o sep \o y : a \in DateParts, b \in DateParts, sep \in {"-", "/"}, y \in DateYears}
    \cup {y \o "-" \o a \o "-" \o b : a \in DateParts, b \in DateParts, y \in DateYears}
    \cup {"", "soon", "Jun 21, 2025, 16:10", "jun  1, 2025, 9:05", "Feb 30, 2025, 10:00",
          "Jun 21, 2025, 16:10 IST", "21-06-2025 "}

\* the sample SBI e-mail shown by main (main.py:617-633)
sample_email ==
    "\n"
    \o "        **Dear Valued SBI Debit Card Holder,**\n"
    \o "        \n"
    \o "        The below transaction has been done using your SBI debit card.\n"
    \o "        \n"
    \o "        Description | Value\n"
    \o "        Terminal Owner Name | RELIANCE RETAIL LTD\n"
    \o "        Terminal Id | 89051784\n"
    \o "        Date & Time | Jun 21, 2025, 16:10\n"
    \o "        Transaction Number | 517210057033\n"
    \o "        Amount (INR) | 349.00\n"
    \o "        Last 4 Digit of Card | X3093\n"
    \o "        Transaction Type | PURCHASE\n"
    \o "        Channel | POS / ECOM\n"
    \o "        City | 01204770770\n"
    \o "        Location | RELIANCE RETAIL LTD\n"
    \o "        "

\* an e-mail in the layout of the SBI alert (main.py:617-633); NoneStr leaves a line out
SbiBody(amount, merchant, date, card) ==
    "Dear Customer,\n"
    \o (IF merchant = NoneStr THEN "" ELSE "Terminal Owner Name " \o merchant \o "\n")
    \o (IF date = NoneStr THEN "" ELSE "Date & Time " \o date \o "\n")
    \o (IF amount = NoneStr THEN "" ELSE "Amount (INR) " \o amount \o "\n")
    \o (IF card = NoneStr THEN "" ELSE "Last 4 Digit of Card " \o card \o "\n")

SbiBodies ==
    {SbiBody(a, m, d, c) : a \in {NoneStr, "349.00", "1,234.50", ",", "0.00"},
                           m \in {NoneStr, "RELIANCE RETAIL LTD", "  SWIGGY  "},
                           d \in {NoneStr, "Jun 21, 2025, 16:10", "soon"},
                           c \in {NoneStr, "X3093"}}

SentenceBodies ==
    {"Rs. 500.00 spent at AMAZON on 21-06-2025 using card ending 1234",
     "Rs 0.00 debited at STORE on 21-06-2025, card ending 1234",
     "Your Card ending 4321 was used for INR 1,250.00 at Taj Restaurant\non 31-02-2025",
     "INR ,. at Cinema",
     "Thank you for banking with us."}

Bodies == SbiBodies \cup SentenceBodies \cup {sample_email}

Email(sender, body) == [sender |-> sender, body |-> body]

\* the e-mails a fetched batch is made of
Inbox ==
    {Email("donotreply.sbiatm@alerts.sbi.co.in", SbiBody("349.00", "SWIGGY", "Jun 21, 2025, 16:10", "X3093")),
     Email("noreply@example.com", SbiBody("349.00", "SWIGGY", "Jun 21, 2025, 16:10", "X3093")),
     Email("donotreply.sbiatm@alerts.sbi.co.in", SbiBody(",", "SWIGGY", "Jun 21, 2025, 16:10", "X3093")),
     Email("alerts@hdfcbank.net", "Rs 0.00 debited at STORE on 21-06-2025, card ending 1234"),
     Email("alert@icicibank.com", "Your Card ending 4321 was used for INR 1,250.00 at Taj Restaurant\non 31-02-2025"),
     Email("alerts@axisbank.com", "INR 1,250.00 spent at Taj Restaurant")}

RECURSIVE Batches(_)
\* the batches of at most n e-mails
Batches(n) == IF n = 0 THEN {<<>>}
              ELSE LET shorter == Batches(n - 1)
                   IN shorter \cup {Append(b, e) : b \in shorter, e \in Inbox}

\* what the remote classifier may put in "output"
AIOutputs == {PyStr("Food & Dining|Restaurants"), PyStr(" Shopping | General \n"),
              PyList(<<"Food & Dining", "|", "Restaurants">>), PyStr("Travel|Flights"),
              PyStr("Groceries"), PyStr(""), PyNone}

SubmitResponses == {Raised, Http(201, Accepted("https://api.replicate.com/v1/predictions/p1")),
                    Http(201, NoJson), Http(401, NoJson)}

PollResponses == {Raised, Http(503, NoJson), Http(200, NoJson),
                  Http(200, Polled("processing", PyNone)), Http(200, Polled("failed", PyNone))}
                 \cup {Http(200, Polled("succeeded", o)) : o \in AIOutputs}

Date(y, m, d) == [year |-> y, month |-> m, day |-> d]

\* values of the date-range input: a range, or a start date alone
DateRanges == {<<Date(2025, 6, 1), Date(2025, 6, 30)>>, <<Date(2025, 6, 21), Date(2025, 6, 29)>>,
               <<Date(2025, 6, 1)>>}

-----------------------------------------------------------------------------
(* The handler of the "Fetch Transactions" button (main.py:449-476), run    *)
(* once: the loop over the fetched e-mails, the categorization of each      *)
(* record worth it, the date filter and the store into the session.         *)

Init ==
    /\ replicate_token \in {"", "r8_token"}
    /\ clock = 0
    /\ date_range \in DateRanges
    /\ emails = <<>>
    /\ idx = 0
    /\ pc = "idle"
    /\ transaction = None
    /\ transactions = <<>>
    /\ ai = NoFrame
    /\ errors = 0
    /\ stored = <<>>
    /\ call = None
    /\ ret = None

\* emails = gmail_auth.get_emails(...); transactions = [] (main.py:451-453)
Fetch ==
    /\ pc = "idle"
    /\ emails' \in Batches(MaxEmails)
    /\ idx' = 1
    /\ transactions' = <<>>
    /\ pc' = "loop"
    /\ UNCHANGED <<replicate_token, clock, date_range, transaction, ai, errors, stored, call, ret>>

\* transaction = analyzer.parse_transaction_email(email['body'], email['sender'])
\* (main.py:455)
LoopParse ==
    /\ pc = "loop"
    /\ idx <= Len(emails)
    /\ \E r \in {parse_transaction_email(emails[idx].body, emails[idx].sender, clock)} :
         /\ transaction' = r.value
         /\ errors' = errors + (IF r.error THEN 1 ELSE 0)
    /\ pc' = "parsed"
    /\ UNCHANGED <<replicate_token, clock, date_range, emails, idx, transactions, ai, stored, call, ret>>

\* a plausible slip: the amount test left out of main.py:456
WorthCategorizing_any_amount(t) == t # None

\* the test of main.py:456
WorthCategorizing(t) == t # None /\ Positive(t.amount)

\* a plausible slip: a record that is None or not worth categorizing ends the loop
LoopSkip_abort ==
    /\ pc = "parsed"
    /\ ~WorthCategorizing(transaction)
    /\ idx' = Len(emails) + 1
    /\ pc' = "loop"
    /\ UNCHANGED <<replicate_token, clock, date_range, emails, transaction, transactions, ai,
                   errors, stored, call, ret>>

\* the test fails: nothing is categorized, nothing appended, and the loop
\* goes on with the next e-mail (main.py:456)
LoopSkip ==
    /\ pc = "parsed"
    /\ ~WorthCategorizing(transaction)
    /\ idx' = idx + 1
    /\ pc' = "loop"
    /\ UNCHANGED <<replicate_token, clock, date_range, emails, transaction, transactions, ai,
                   errors, stored, call, ret>>

\* the test holds: the call of categorize_transaction_ai (main.py:456-461)
LoopCategorize ==
    /\ pc = "parsed"
    /\ WorthCategorizing(transaction)
    /\ ai' = NewFrame(transaction.merchant, transaction.amount)
    /\ pc' = "ai_call"
    /\ UNCHANGED <<replicate_token, clock, date_range, emails, idx, transaction, transactions,
                   errors, stored, call, ret>>

\* no token: the fallback at once (main.py:182-183)
AiNoToken ==
    /\ pc = "ai_call"
    /\ replicate_token = ""
    /\ ai' = [ai EXCEPT !.ret = fallback_categorization(ai.merchant)]
    /\ pc' = "ai_return"
    /\ UNCHANGED <<replicate_token, clock, date_range, emails, idx, transaction, transactions,
                   errors, stored, call, ret>>

\* the submission (main.py:202-217); an exception and a status other than
\* 201 both end in the fallback of main.py:244
AiSubmit ==
    /\ pc = "ai_call"
    /\ replicate_token # ""
    /\ \E resp \in SubmitResponses :
         LET f == [ai EXCEPT !.submits = @ + 1, !.resp = resp] IN
         IF submit_outcome(resp) = "poll"
         THEN /\ ai' = f
              /\ pc' = "ai_poll"
         ELSE /\ ai' = [f EXCEPT !.ret = fallback_categorization(ai.merchant)]
              /\ pc' = "ai_return"
    /\ UNCHANGED <<replicate_token, clock, date_range, emails, idx, transaction, transactions,
                   errors, stored, call, ret>>

\* one turn of the polling loop (main.py:220-239), the sleep included, and
\* what follows the loop when this was its last turn (main.py:241-244)
AiPoll ==
    /\ pc = "ai_poll"
    /\ ~LoopExhausted(ai.polls)
    /\ \E resp \in PollResponses :
         LET f == [ai EXCEPT !.polls = @ + 1, !.resp = resp]
             o == poll_outcome(resp)
         IN CASE o.act = "return" ->
                   /\ ai' = [f EXCEPT !.ret = o.value]
                   /\ pc' = "ai_return"
              [] o.act \in {"raise", "break"} ->
                   /\ ai' = [f EXCEPT !.ret = fallback_categorization(ai.merchant)]
                   /\ pc' = "ai_return"
              [] o.act = "sleep" ->
                   /\ IF LoopExhausted(f.polls)
                      THEN /\ ai' = [f EXCEPT !.sleeps = @ + 1,
                                              !.ret = fallback_categorization(ai.merchant)]
                           /\ pc' = "ai_return"
                      ELSE /\ ai' = [f EXCEPT !.sleeps = @ + 1]
                           /\ pc' = "ai_poll"
    /\ UNCHANGED <<replicate_token, clock, date_range, emails, idx, transaction, transactions,
                   errors, stored, call, ret>>

WithCategory(t, pair) ==
    [amount |-> t.amount, merchant |-> t.merchant, date |-> t.date, card_last4 |-> t.card_last4,
     bank |-> t.bank, raw_email |-> t.raw_email, category |-> pair[1], subcategory |-> pair[2]]

\* the call has returned: the pair is attached and the record appended
\* (main.py:458-465)
AiReturn ==
    /\ pc = "ai_return"
    /\ transactions' = Append(transactions, WithCategory(transaction, ai.ret))
    /\ transaction' = WithCategory(transaction, ai.ret)
    /\ ai' = NoFrame
    /\ idx' = idx + 1
    /\ pc' = "loop"
    /\ UNCHANGED <<replicate_token, clock, date_range, emails, errors, stored, call, ret>>

DateOf(dt) == Date(dt.year, dt.month, dt.day)

\* a <= b for two dates
DateLE(a, b) ==
    \/ a.year < b.year
    \/ a.year = b.year /\ a.month < b.month
    \/ a.year = b.year /\ a.month = b.month /\ a.day <= b.day

\* a plausible slip: the end day taken as the first day outside the range
InRange_end_excluded(t, range) ==
    DateLE(range[1], DateOf(t.date)) /\ DateLE(DateOf(t.date), range[2]) /\ DateOf(t.date) # range[2]

\* start_date <= t['date'].date() <= end_date (main.py:472)
InRange(t, range) == DateLE(range[1], DateOf(t.date)) /\ DateLE(DateOf(t.date), range[2])

\* the loop is over: the date filter and the store (main.py:467-475)
FilterAndStore ==
    /\ pc = "loop"
    /\ idx > Len(emails)
    /\ LET kept == IF Len(date_range) = 2
                   THEN SelectSeq(transactions, LAMBDA t : InRange(t, date_range))
                   ELSE transactions
       IN /\ transactions' = kept
          /\ stored' = kept
    /\ pc' = "done"
    /\ UNCHANGED <<replicate_token, clock, date_range, emails, idx, transaction, ai, errors, call, ret>>

\* time passes between two turns of the loop, or before a direct call is made
Tick ==
    /\ pc \in {"loop", "call"}
    /\ clock < MaxClock
    /\ clock' = clock + 1
    /\ UNCHANGED <<replicate_token, date_range, emails, idx, pc, transaction, transactions, ai,
                   errors, stored, call, ret>>

Next == Tick \/ Fetch \/ LoopParse \/ LoopSkip \/ LoopCategorize \/ AiNoToken \/ AiSubmit \/ AiPoll \/ AiReturn \/ FilterAndStore

Spec == Init /\ [][Next]_vars

\* every request returns or raises, and the handler runs on: each step that
\* can be taken is taken

-----------------------------------------------------------------------------
(* Direct calls of the methods of BankEmailAnalyzer, one per behaviour *)

Call(fn, text, sender, amount) == [fn |-> fn, text |-> text, sender |-> sender, amount |-> amount]

UnitCalls ==
    {Call("fallback_categorization", m, "", Zero) : m \in Merchants}
    \cup {Call("identify_bank", "", x, Zero) : x \in Senders}
    \cup {Call("parse_date", d, "", Zero) : d \in DateTexts}
    \cup {Call("parse_transaction_email", b, x, Zero) : b \in Bodies,
              x \in {"donotreply.sbiatm@alerts.sbi.co.in", "Alerts@HDFCBank.net", "credit_cards@icicibank.com",
                     "alerts@axisbank.com", "creditcardalerts@kotak.com", "noreply@idfcfirstbank.com",
                     "alerts@yesbank.in", "transactionalert@indusind.com", "noreply@example.com"}}

UnitInit ==
    /\ replicate_token = ""
    /\ clock = 0
    /\ date_range = <<>>
    /\ emails = <<>>
    /\ idx = 0
    /\ pc = "call"
    /\ transaction = None
    /\ transactions = <<>>
    /\ ai = NoFrame
    /\ errors = 0
    /\ stored = <<>>
    /\ call \in UnitCalls
    /\ ret = None

Returned(value, error) == [value |-> value, error |-> error]

CallFallback ==
    /\ pc = "call"
    /\ call.fn = "fallback_categorization"
    /\ ret' = Returned(fallback_categorization(call.text), FALSE)
    /\ pc' = "returned"
    /\ UNCHANGED <<replicate_token, clock, date_range, emails, idx, transaction, transactions, ai,
                   errors, stored, call>>

CallIdentifyBank ==
    /\ pc = "call"
    /\ call.fn = "identify_bank"
    /\ ret' = Returned(identify_bank(call.sender), FALSE)
    /\ pc' = "returned"
    /\ UNCHANGED <<replicate_token, clock, date_range, emails, idx, transaction, transactions, ai,
                   errors, stored, call>>

CallParseDate ==
    /\ pc = "call"
    /\ call.fn = "parse_date"
    /\ ret' = Returned(parse_date(call.text, clock), FALSE)
    /\ pc' = "returned"
    /\ UNCHANGED <<replicate_token, clock, date_range, emails, idx, transaction, transactions, ai,
                   errors, stored, call>>

CallParseEmail ==
    /\ pc = "call"
    /\ call.fn = "parse_transaction_email"
    /\ \E r \in {parse_transaction_email(call.text, call.sender, clock)} :
         /\ ret' = r
         /\ errors' = errors + (IF r.error THEN 1 ELSE 0)
    /\ pc' = "returned"
    /\ UNCHANGED <<replicate_token, clock, date_range, emails, idx, transaction, transactions, ai,
                   stored, call>>

UnitNext == Tick \/ CallFallback \/ CallIdentifyBank \/ CallParseDate \/ CallParseEmail

UnitSpec == UnitInit /\ [][UnitNext]_vars

-----------------------------------------------------------------------------
(* Direct calls of categorize_transaction_ai(merchant, amount), with and   *)
(* without a token, the remote service answering as it likes.              *)

AiCalls == {Call("categorize_transaction_ai", m, "", a) :
                m \in {"SWIGGY", "Unknown"},
                a \in {Float("349.00"), Float("1250.0")}}

AiCallInit ==
    /\ replicate_token \in {"", "r8_token"}
    /\ clock = 0
    /\ date_range = <<>>
    /\ emails = <<>>
    /\ idx = 0
    /\ pc = "call"
    /\ transaction = None
    /\ transactions = <<>>
    /\ ai = NoFrame
    /\ errors = 0
    /\ stored = <<>>
    /\ call \in AiCalls
    /\ ret = None

\* the call is made (main.py:180)
CallCategorize ==
    /\ pc = "call"
    /\ call.fn = "categorize_transaction_ai"
    /\ ai' = NewFrame(call.text, call.amount)
    /\ pc' = "ai_call"
    /\ UNCHANGED <<replicate_token, clock, date_range, emails, idx, transaction, transactions,
                   errors, stored, call, ret>>

\* the pair is handed to the caller
CallCategorizeReturn ==
    /\ pc = "ai_return"
    /\ ret' = Returned(ai.ret, FALSE)
    /\ pc' = "returned"
    /\ UNCHANGED <<replicate_token, clock, date_range, emails, idx, transaction, transactions, ai,
                   errors, stored, call>>

AiCallNext == CallCategorize \/ AiNoToken \/ AiSubmit \/ AiPoll \/ CallCategorizeReturn

AiCallSpec == AiCallInit /\ [][AiCallNext]_vars

\* a request of the call that is under way returns or raises: the steps
\* of categorize_transaction_ai are not put off for ever
AiStep == AiNoToken \/ AiSubmit \/ AiPoll

FairAiCallSpec == AiCallSpec /\ WF_vars(AiStep)

-----------------------------------------------------------------------------
(* Properties of the keyword fallback, checked on direct calls (UnitSpec). *)

\* C3: fallback_categorization tests the categories in the fixed order
\* Food & Dining, Shopping, Entertainment, Transportation, and the first
\* category with a keyword in the lower-cased merchant name is the one
\* returned; with no keyword at all the result is Shopping / General.  So a
\* name with a food word and a shopping word is Food & Dining, and a name
\* with a shopping word and an entertainment word (and no food word) is
\* Shopping.
C3_PriorityOrder ==
    (pc = "returned" /\ call.fn = "fallback_categorization") =>
        LET name == StrLower(call.text)
            order == <<"Food & Dining", "Shopping", "Entertainment", "Transportation">>
            words == <<FoodWords, ShoppingWords, EntertainmentWords, TransportWords>>
            hits == {i \in 1..4 : AnyIn(words[i], name)}
        IN /\ hits # {} => ret.value[1] = order[SetMin(hits)]
           /\ hits = {} => ret.value = <<"Shopping", "General">>
           /\ call.text = "AMAZON FRESH RESTAURANT" => ret.value[1] = "Food & Dining"
           /\ call.text = "AMAZON Prime" => ret.value[1] = "Shopping"

\* a name with a shopping word in front of a food word came back as Food & Dining
C3_Witness ==
    /\ pc = "returned"
    /\ call.fn = "fallback_categorization"
    /\ call.text = "AMAZON FRESH RESTAURANT"
    /\ ret.value = <<"Food & Dining", "Restaurants">>

\* C10: inside the Food & Dining branch the subcategory is Fast Food exactly
\* when the lower-cased name contains swiggy, zomato or delivery, and
\* Restaurants otherwise: SWIGGY gives Fast Food, TAJ RESTAURANT gives
\* Restaurants.
C10_FoodSubcategory ==
    (pc = "returned" /\ call.fn = "fallback_categorization") =>
        LET name == StrLower(call.text)
            delivery == \E w \in {"swiggy", "zomato", "delivery"} : StrContains(name, w)
        IN /\ ret.value[1] = "Food & Dining" =>
                ret.value[2] = (IF delivery THEN "Fast Food" ELSE "Restaurants")
           /\ call.text = "SWIGGY" => ret.value = <<"Food & Dining", "Fast Food">>
           /\ call.text = "TAJ RESTAURANT" => ret.value = <<"Food & Dining", "Restaurants">>

\* a food name whose delivery word is not itself a food word came back as Fast Food
C10_Witness ==
    /\ pc = "returned"
    /\ call.fn = "fallback_categorization"
    /\ call.text = "TAJ RESTAURANT DELIVERY"
    /\ ret.value = <<"Food & Dining", "Fast Food">>

-----------------------------------------------------------------------------
(* Properties of parse_date, identify_bank and parse_transaction_email,    *)
(* checked on direct calls (UnitSpec).                                     *)

\* C9: parse_date tries 'Mon D, YYYY, HH:MM', 'DD-MM-YYYY', 'YYYY-MM-DD',
\* 'DD/MM/YYYY', 'MM/DD/YYYY' in this order and returns what the first format
\* that parses gives, so "01/02/2025" is the first of February; when no
\* format parses (the empty text included) it returns the time of the call,
\* and it never raises.
C9_FirstFormatWins ==
    (pc = "returned" /\ call.fn = "parse_date") =>
        LET order == << <<"%b", " ", "%d", ",", " ", "%Y", ",", " ", "%H", ":", "%M">>,
                        <<"%d", "-", "%m", "-", "%Y">>,
                        <<"%Y", "-", "%m", "-", "%d">>,
                        <<"%d", "/", "%m", "/", "%Y">>,
                        <<"%m", "/", "%d", "/", "%Y">> >>
            parses == {i \in 1..5 : strptime(call.text, order[i]) # ValueError}
        IN /\ ~ret.error
           /\ ret.value # ValueError
           /\ parses # {} => ret.value = strptime(call.text, order[SetMin(parses)])
           /\ parses = {} => ret.value = Now(clock)
           /\ call.text = "01/02/2025" => (ret.value.day = 1 /\ ret.value.month = 2)
           /\ call.text = "" => ret.value = Now(clock)

\* a text that both slash formats parse came back read as day/month
C9_Witness ==
    /\ pc = "returned"
    /\ call.fn = "parse_date"
    /\ call.text = "01/02/2025"
    /\ strptime(call.text, formats[5]) # ValueError
    /\ ret.value = [year |-> 2025, month |-> 2, day |-> 1, hour |-> 0, minute |-> 0, second |-> 0]

C4_FieldsIndependent ==
    (pc = "returned" /\ call.fn = "parse_transaction_email"
        /\ identify_bank(call.sender) \in DOMAIN BANK_PATTERNS) =>
        LET bank == identify_bank(call.sender)
            amount_match == ReSearch(PatternOf(bank, "amount_pattern"), call.text)
            merchant_match == ReSearch(PatternOf(bank, "merchant_pattern"), call.text)
            date_match == ReSearch(PatternOf(bank, "date_pattern"), call.text)
            card_match == ReSearch(PatternOf(bank, "card_pattern"), call.text)
        IN /\ ret.value # None
           /\ ~ret.error
           /\ (amount_match = None \/ ExtractAmount(amount_match) = ValueError) => ret.value.amount = Zero
           /\ merchant_match = None => ret.value.merchant = "Unknown"
           /\ date_match = None => ret.value.date = Now(clock)
           /\ card_match = None => ret.value.card_last4 = ""

-----------------------------------------------------------------------------
(* Properties of the fetch handler (Spec) and of a call of                 *)
(* categorize_transaction_ai (Spec, FairAiCallSpec).                       *)

\* C1: every record the fetch pipeline produces carries a (category,
\* subcategory) pair of the CATEGORIES taxonomy, whatever the remote
\* classifier answers: the AI path never returns a label outside it.
C1_ValidTaxonomyPairs ==
    \A i \in DOMAIN transactions :
        ValidPair(<<transactions[i].category, transactions[i].subcategory>>)

\* C2: categorize_transaction_ai returns fallback_categorization(merchant),
\* and nothing else reaches its caller, whenever the classifier is
\* unavailable: no credential, a submission that raises or is not accepted,
\* a poll that raises, a succeeded answer that is empty or has no '|', a
\* call whose polls end on status failed, and a call whose polls stay
\* pending up to the ceiling.  Every return is either one of these or a
\* succeeded answer holding the delimiter.
C2_FallbackWhenUnavailable ==
    pc = "ai_return" =>
        LET r == ai.resp
            answered == ai.polls > 0 /\ ~r.raises /\ r.status_code = 200
            succeeded == answered /\ r.json.status = "succeeded"
            delimited == /\ succeeded
                         /\ r.json.output.type # "NoneType"
                         /\ StrContains(JoinedOutput(r.json.output), "|")
            unavailable ==
                \/ replicate_token = ""
                \/ ai.polls = 0 /\ ai.submits = 1 /\ r.raises
                \/ ai.polls = 0 /\ ai.submits = 1 /\ ~r.raises /\ r.status_code # 201
                \/ ai.polls = 0 /\ ai.submits = 1 /\ ~r.raises /\ r.json.get = NoneStr
                \/ ai.polls > 0 /\ r.raises
                \/ answered /\ r.json.status = NoneStr
                \/ succeeded /\ ~delimited
                \/ ai.polls = 10 /\ answered /\ r.json.status = "failed"
                \/ ai.polls = 10 /\ answered /\ r.json.status = "processing"
                \/ ai.polls = 10 /\ ~r.raises /\ r.status_code # 200
        IN /\ unavailable => ai.ret = fallback_categorization(ai.merchant)
           /\ unavailable \/ delimited

\* a call whose ten polls ended on status failed has returned the fallback pair
C2_Witness ==
    /\ pc = "ai_return"
    /\ ai.merchant = "SWIGGY"
    /\ ai.polls = 10
    /\ ~ai.resp.raises
    /\ ai.resp.json.status = "failed"
    /\ ai.ret = <<"Food & Dining", "Fast Food">>

\* C6: in the fetch loop categorize_transaction_ai, and so any request to
\* the remote classifier, is made only for a parsed record with amount > 0;
\* a record with amount <= 0, or a parse result of None, is never
\* categorized and never in the output list.
C6_OnlyPositiveCategorized ==
    /\ pc \in {"ai_call", "ai_poll", "ai_return"} =>
           (transaction # None /\ transaction.amount.num > 0 /\ ai.amount = transaction.amount)
    /\ (ai.submits > 0 \/ ai.polls > 0) => pc \in {"ai_poll", "ai_return"}
    /\ \A i \in DOMAIN transactions : transactions[i].amount.num > 0

\* a record with amount 0.0 was parsed and the loop went on without a call
\* and without appending it
C6_Witness ==
    /\ pc = "loop"
    /\ idx = 2
    /\ transaction # None
    /\ transaction.amount = Zero
    /\ ai = NoFrame
    /\ transactions = <<>>

\* the e-mails of Inbox that parse to a record with amount > 0
WorthyInbox == {e \in Inbox : WorthCategorizing(parse_transaction_email(e.body, e.sender, 0).value)}

\* C7: an e-mail that fails (unknown bank, exception while parsing, failure
\* of the classifier) never ends the batch: between two turns of the loop
\* the output list holds, in the order of the e-mails, one record for each
\* e-mail handled so far that parses to a record with amount > 0, and the
\* loop ends only when every e-mail has been handled.
C7_BatchNeverAborted ==
    /\ pc = "loop" =>
           LET due == SelectSeq(SubSeq(emails, 1, idx - 1), LAMBDA e : e \in WorthyInbox)
           IN /\ idx <= Len(emails) + 1
              /\ Len(transactions) = Len(due)
              /\ \A i \in DOMAIN due : transactions[i].raw_email = due[i].body
    /\ pc = "done" => idx = Len(emails) + 1

\* the first e-mail raised while it was parsed, and the second one was
\* still parsed, categorized and appended
C7_Witness ==
    /\ pc = "loop"
    /\ Len(emails) = 2
    /\ idx = 3
    /\ errors = 1
    /\ emails[1] \notin WorthyInbox
    /\ Len(transactions) = 1
    /\ transactions[1].raw_email = emails[2].body

\* C8: a call of categorize_transaction_ai makes at most one submission and
\* at most 10 polls, and, every request returning or raising, it always
\* ends with a (category, subcategory) pair, whatever statuses the service
\* reports.
C8_BoundedCall ==
    /\ [](ai.submits <= 1 /\ ai.polls <= 10)
    /\ [](pc = "ai_return" => (Len(ai.ret) = 2 /\ ai.ret # NoPair))
    /\ (pc \in {"ai_call", "ai_poll"}) ~> (pc = "ai_return")

\* a call with a credential returned after one submission and ten polls
\* that all found the prediction pending
C8_Witness ==
    /\ pc = "ai_return"
    /\ replicate_token # ""
    /\ ai.submits = 1
    /\ ai.polls = 10
    /\ ai.sleeps = 10
    /\ ai.resp.json.status = "processing"

\* C11: the list a fetch stores holds exactly the categorized records whose
\* day lies within the date range, both end days included, in their order:
\* every record outside the range is dropped, the records are filtered with
\* their category fields already attached, and a record that is kept is
\* stored unchanged.  (A date_range value that is not a pair of days is no
\* range, and nothing is dropped.)
C11_DateFilter ==
    [][(pc = "loop" /\ pc' = "done") =>
          LET day(d) == d.year * 10000 + d.month * 100 + d.day
              within(t) == /\ day(date_range[1]) <= day(t.date)
                           /\ day(t.date) <= day(date_range[2])
          IN /\ \A i \in DOMAIN transactions :
                    {"category", "subcategory"} \subseteq DOMAIN transactions[i]
             /\ Len(date_range) = 2 => stored' = SelectSeq(transactions, within)
             /\ Len(date_range) # 2 => stored' = transactions
             /\ transactions' = stored']_vars

\* two e-mails were categorized, the range ran from 21 to 29 June 2025: the
\* record of 21 June, on the first day of the range, was stored as it was,
\* and the record of 30 June was dropped
C11_Witness ==
    /\ pc = "done"
    /\ date_range = <<Date(2025, 6, 21), Date(2025, 6, 29)>>
    /\ Len(emails) = 2
    /\ emails[1] \in WorthyInbox
    /\ emails[2] \in WorthyInbox
    /\ Len(stored) = 1
    /\ DateOf(stored[1].date) = Date(2025, 6, 21)
    /\ stored[1].raw_email = emails[1].body
    /\ stored[1].category # ""

-----------------------------------------------------------------------------
(* Properties of the sample e-mail and of the banks without a profile,     *)
(* checked on direct calls (UnitSpec).                                     *)

\* C12: from the sample SBI e-mail, sent by the SBI sender,
\* parse_transaction_email yields amount 349.00, merchant
\* "RELIANCE RETAIL LTD", bank "SBI" and card_last4 "X3093", and
\* fallback_categorization of that merchant yields Shopping / General.
C12_SampleEmail ==
    /\ (pc = "returned" /\ call.fn = "parse_transaction_email" /\ call.text = sample_email
           /\ call.sender = "donotreply.sbiatm@alerts.sbi.co.in") =>
            /\ ret.value # None
            /\ ret.value.amount = Float("349.00")
            /\ ret.value.merchant = "RELIANCE RETAIL LTD"
            /\ ret.value.bank = "SBI"
            /\ ret.value.card_last4 = "X3093"
    /\ (pc = "returned" /\ call.fn = "fallback_categorization"
           /\ call.text = "RELIANCE RETAIL LTD") =>
            ret.value = <<"Shopping", "General">>

-----------------------------------------------------------------------------
(* The polling loop of categorize_transaction_ai (FairAiCallSpec).         *)

\* C14: polling ends before the 10th poll only when a poll answers 200 with
\* status succeeded or a request raises (the reading of its answer
\* included); a poll that reports failed or pending, or answers with
\* another code than 200, never ends the loop: it is followed by a sleep
\* and, below the ceiling, by the next poll, and the call that ends on such
\* a poll has made all 10 polls and 10 sleeps and returns the fallback pair.
C14_NoEarlyExit ==
    LET r == ai.resp
        polled == pc \in {"ai_poll", "ai_return"} /\ ai.polls > 0
        raised == r.raises \/ (r.status_code = 200 /\ r.json.status = NoneStr)
        succeeded == ~r.raises /\ r.status_code = 200 /\ r.json.status = "succeeded"
        goes_on == /\ ~r.raises
                   /\ \/ r.status_code # 200
                      \/ r.status_code = 200 /\ r.json.status \in {"failed", "processing"}
    IN /\ (pc = "ai_return" /\ ai.polls > 0 /\ ai.polls < 10) => (raised \/ succeeded)
       /\ (polled /\ goes_on) => ai.sleeps = ai.polls
       /\ (polled /\ goes_on /\ ai.polls < 10) => pc = "ai_poll"
       /\ (polled /\ goes_on /\ pc = "ai_return") =>
              (ai.polls = 10 /\ ai.sleeps = 10 /\ ai.ret = fallback_categorization(ai.merchant))
       /\ pc = "ai_poll" => ai.sleeps = ai.polls

\* the fourth poll reported failed: the call slept and the loop goes on
C14_Witness ==
    /\ pc = "ai_poll"
    /\ ai.polls = 4
    /\ ai.sleeps = 4
    /\ ~ai.resp.raises
    /\ ai.resp.status_code = 200
    /\ ai.resp.json.status = "failed"
    /\ ENABLED AiPoll

=============================================================================
